---- MODULE Spec2Model ----
(***************************************************************************)
(* A model of hoppielib-go: the CPDLC packet codec (src/cpdlc.go 1-89,     *)
(* 463-491) and the ACARSManager session engine (src/cpdlc.go 116-461):    *)
(* Connect, the Listen poll goroutine, CPDLCRequest, Telex,                *)
(* WeatherRequest, Close, the Connection mutex and the two capacity-1      *)
(* channels.  Go strings are sequences of one-character strings, so that   *)
(* the codec is computed as the code computes it.                          *)
(*                                                                         *)
(* Spec is one goroutine using the whole interface next to the Listen      *)
(* goroutines and the channel consumers; SpecCallers is two goroutines     *)
(* calling Connect and CPDLCRequest concurrently.  A step is one access    *)
(* to shared memory, a channel, the mutex or the transport; the unlocked   *)
(* reads of state, station and lastMin are steps of their own, so every    *)
(* outcome of the races on them is an interleaving.                        *)
(*                                                                         *)
(* SpecShutdown is Connect, Listen and Close under a fair scheduler, with  *)
(* consumers that may never receive.  SpecCodec applies the functions of   *)
(* the codec (MakeCPDLCPacket, ParseCPDLCMessage, ParseAdsCMessage of      *)
(* src/unnamed/part_000, ParseACARSMessage of src/unnamed/part_001) to     *)
(* inputs drawn in the initial state.                                      *)
(***************************************************************************)
EXTENDS Integers, Sequences, FiniteSets, TLC

(***************************************************************************)
(* Bounds of the model.                                                    *)
(***************************************************************************)
\* lastMin is not incremented beyond MaxMin (IncrementMin is unbounded).
MaxMin == 3
\* At most MaxTasks Listen goroutines are ever started (Connect calls that
\* reach ErrGroup.Go).
MaxTasks == 2
\* At most MaxPolls poll requests are issued over all Listen goroutines.
MaxPolls == 2
\* At most MaxCalls calls are made on the manager over all callers.
MaxCalls == 3
\* A text given to ParseACARSMessage is made of at most MaxUnits pieces.
MaxUnits == 3

(***************************************************************************)
(* Strings.                                                                *)
(***************************************************************************)
DigitChars == <<"0", "1", "2", "3", "4", "5", "6", "7", "8", "9">>

IsDigit(c) == \E i \in 1..10 : DigitChars[i] = c

DigitVal(c) == (CHOOSE i \in 1..10 : DigitChars[i] = c) - 1

\* strings.CutPrefix: whether s starts with p
HasPrefix(s, p) == Len(s) >= Len(p) /\ SubSeq(s, 1, Len(p)) = p

\* strings.CutPrefix: s without its prefix p
CutPrefix(s, p) == SubSeq(s, Len(p) + 1, Len(s))

RECURSIVE Split(_, _)
\* strings.Split(s, sep) for a one-character separator
Split(s, sep) ==
    IF \A i \in 1..Len(s) : s[i] # sep
    THEN <<s>>
    ELSE LET i == CHOOSE k \in 1..Len(s) :
                     s[k] = sep /\ \A j \in 1..(k - 1) : s[j] # sep
         IN  <<SubSeq(s, 1, i - 1)>> \o Split(SubSeq(s, i + 1, Len(s)), sep)

RECURSIVE Join(_, _)
\* strings.Join(parts, sep) for a one-character separator
Join(parts, sep) ==
    IF parts = <<>> THEN <<>>
    ELSE IF Len(parts) = 1 THEN parts[1]
    ELSE parts[1] \o <<sep>> \o Join(Tail(parts), sep)

RECURSIVE DecVal(_)
DecVal(ds) ==
    IF ds = <<>> THEN 0
    ELSE DecVal(SubSeq(ds, 1, Len(ds) - 1)) * 10 + DigitVal(ds[Len(ds)])

\* the digits of s after an optional sign
AtoiBody(s) == IF s # <<>> /\ s[1] \in {"+", "-"} THEN Tail(s) ELSE s

\* strconv.Atoi(s) returns no error: an optional sign and at least one
\* decimal digit (inputs here are far shorter than the 19 digits at which
\* the range error starts)
AtoiOk(s) ==
    /\ AtoiBody(s) # <<>>
    /\ \A i \in 1..Len(AtoiBody(s)) : IsDigit(AtoiBody(s)[i])

\* strconv.Atoi(s), its value
AtoiVal(s) ==
    IF s[1] = "-" THEN 0 - DecVal(AtoiBody(s)) ELSE DecVal(AtoiBody(s))

RECURSIVE NatDigits(_)
NatDigits(n) ==
    IF n < 10 THEN <<DigitChars[n + 1]>>
    ELSE NatDigits(n \div 10) \o <<DigitChars[(n % 10) + 1]>>

\* strconv.Itoa(n)
Itoa(n) == IF n < 0 THEN <<"-">> \o NatDigits(0 - n) ELSE NatDigits(n)

(***************************************************************************)
(* The CPDLC codec.                                                        *)
(***************************************************************************)
\* a nil pointer, and a pointer to x (*int, *string)
Nil == <<>>
Some(x) == <<x>>

RespondWilcoUnable == <<"W", "U">>
RespondAffirmNegative == <<"A", "N">>
RespondRoger == <<"R">>
RespondOperationalResponse == <<"N", "E">>
RespondRequired == <<"Y">>
RespondNotRequired == <<"N">>

\* the keys of responseRequirementMap; every description is non-empty
responseRequirementMap ==
    { RespondWilcoUnable, RespondAffirmNegative, RespondRoger,
      RespondOperationalResponse, RespondRequired, RespondNotRequired }

\* a check that takes every non-empty key
isValidResponseRequirementNonEmpty(rrk) == rrk # <<>>

isValidResponseRequirement(rrk) == rrk \in responseRequirementMap

DATA2_PREFIX == <<"/", "d", "a", "t", "a", "2", "/">>
DATA2 == <<"/", "d", "a", "t", "a", "2">>
LOGON_ACCEPTED ==
    <<"L", "O", "G", "O", "N", " ", "A", "C", "C", "E", "P", "T", "E", "D">>
REQUEST_LOGON ==
    <<"R", "E", "Q", "U", "E", "S", "T", " ", "L", "O", "G", "O", "N">>

\* a nil error
NoErr == "nil"
ErrInvalidCPDLCFormat == "Invalid CPDLC format"

CPDLCError(e) == [err |-> e, Min |-> 0, Mrn |-> Nil, Rrk |-> <<>>, Data |-> <<>>]

\* ParseCPDLCMessage: err = NoErr on success; Mrn = Nil is the nil pointer
ParseCPDLCMessage(data) ==
    IF ~HasPrefix(data, DATA2_PREFIX) THEN CPDLCError(ErrInvalidCPDLCFormat)
    ELSE LET parts == Split(CutPrefix(data, DATA2_PREFIX), "/") IN
         IF Len(parts) # 4 THEN CPDLCError(ErrInvalidCPDLCFormat)
         ELSE LET min == parts[1]
                  mrn == parts[2]
                  rrk == parts[3]
              IN  IF ~AtoiOk(min) THEN CPDLCError("MIN")
                  ELSE IF mrn # <<>> /\ ~AtoiOk(mrn) THEN CPDLCError("MRN")
                  ELSE IF ~isValidResponseRequirement(rrk) THEN CPDLCError("Key")
                  ELSE [err |-> NoErr,
                        Min |-> AtoiVal(min),
                        Mrn |-> IF mrn # <<>> THEN Some(AtoiVal(mrn)) ELSE Nil,
                        Rrk |-> rrk,
                        Data |-> parts[4]]

\* MakeCPDLCPacket: mrn = Nil is the nil pointer
MakeCPDLCPacket(min, mrn, rrk, data) ==
    Join(<<DATA2, Itoa(min), IF mrn # Nil THEN Itoa(mrn[1]) ELSE <<>>, rrk, data>>,
         "/")

(***************************************************************************)
(* The ADS-C report decoder.                                               *)
(***************************************************************************)
\* strings.TrimPrefix
TrimPrefix(s, p) == IF HasPrefix(s, p) THEN CutPrefix(s, p) ELSE s

\* strconv.ParseFloat(s, 32) returns no error, for a text of signs, digits,
\* points and other characters that is no exponent, hexadecimal, infinity
\* or NaN form and is within the range of float32: an optional sign, then
\* digits with at most one point among them, at least one digit
ParseFloatOk(s) ==
    LET b == AtoiBody(s) IN
    /\ \A i \in 1..Len(b) : IsDigit(b[i]) \/ b[i] = "."
    /\ \E i \in 1..Len(b) : IsDigit(b[i])
    /\ Cardinality({i \in 1..Len(b) : b[i] = "."}) <= 1

RECURSIVE TrimZeros(_)
\* the digits ds without the zeros at their end
TrimZeros(ds) ==
    IF ds # <<>> /\ ds[Len(ds)] = "0" THEN TrimZeros(SubSeq(ds, 1, Len(ds) - 1))
    ELSE ds

\* strconv.ParseFloat(s, 32), its value m / 10^e as <<m, e>> (the texts here
\* are short decimals; the rounding to float32 is not modelled)
ParseFloatVal(s) ==
    LET b == AtoiBody(s)
        dot == IF \E i \in 1..Len(b) : b[i] = "."
               THEN CHOOSE i \in 1..Len(b) : b[i] = "."
               ELSE Len(b) + 1
        whole == SubSeq(b, 1, dot - 1)
        frac == TrimZeros(SubSeq(b, dot + 1, Len(b)))
        m == DecVal(whole \o frac)
    IN  <<IF s[1] = "-" THEN 0 - m ELSE m, Len(frac)>>

REPORT == <<"R", "E", "P", "O", "R", "T">>

ErrInvalidPrefix == "Invalid ADS-C message prefix"
ErrInvalidFieldCount == "Invalid ADS-C field count"
ErrInvalidADSCFormat == "Invalid ADS-C format"
ErrInvalidHeading == "Invalid heading value"
ErrInvalidPositionData == "Invalid position data (latitude or longitude)"

\* an error of ParseAdsCMessage; detail is the numbers in its message
AdsCError(e, detail) ==
    [err |-> e, detail |-> detail, Callsign |-> <<>>, Time |-> <<>>,
     Latitude |-> <<0, 0>>, Longitude |-> <<0, 0>>, Altitude |-> 0,
     Heading |-> Nil]

\* a range check that has no lower end
HeadingInvalidAbove(rawHeading) == rawHeading > 360

\* the range check of the heading
HeadingInvalid(rawHeading) == rawHeading > 360 \/ rawHeading < 0

\* ParseAdsCMessage: err = NoErr on success; Heading = Nil is the nil pointer
ParseAdsCMessage(message) ==
    IF ~HasPrefix(message, REPORT) THEN AdsCError(ErrInvalidPrefix, <<>>)
    ELSE LET parts == Split(TrimPrefix(CutPrefix(message, REPORT), <<" ">>), " ") IN
         IF Len(parts) < 5 THEN AdsCError(ErrInvalidFieldCount, <<Len(parts), 5>>)
         ELSE LET lat == parts[3]
                  long == parts[4]
                  alt == parts[5]
              IN  IF Len(parts) > 5 /\ ~AtoiOk(parts[6])
                  THEN AdsCError(ErrInvalidHeading, <<>>)
                  ELSE IF Len(parts) > 5 /\ HeadingInvalid(AtoiVal(parts[6]))
                  THEN AdsCError(ErrInvalidHeading, <<>>)
                  ELSE IF ~ParseFloatOk(lat)
                  THEN AdsCError(ErrInvalidPositionData, <<>>)
                  ELSE IF ~ParseFloatOk(long)
                  THEN AdsCError(ErrInvalidPositionData, <<>>)
                  ELSE IF ~AtoiOk(alt) THEN AdsCError(ErrInvalidADSCFormat, <<>>)
                  ELSE [err |-> NoErr,
                        detail |-> <<>>,
                        Callsign |-> parts[1],
                        Time |-> parts[2],
                        Latitude |-> ParseFloatVal(lat),
                        Longitude |-> ParseFloatVal(long),
                        Altitude |-> AtoiVal(alt),
                        Heading |-> IF Len(parts) > 5
                                    THEN Some(AtoiVal(parts[6])) ELSE Nil]

(***************************************************************************)
(* The envelope scan.                                                      *)
(***************************************************************************)
LowerChars ==
    { "a", "b", "c", "d", "e", "f", "g", "h", "i", "j", "k", "l", "m", "n",
      "o", "p", "q", "r", "s", "t", "u", "v", "w", "x", "y", "z" }
\* [A-Za-z0-9]
SenderChars ==
    { "A", "B", "C", "D", "E", "F", "G", "H", "I", "J", "K", "L", "M", "N",
      "O", "P", "Q", "R", "S", "T", "U", "V", "W", "X", "Y", "Z" }
    \cup LowerChars \cup {DigitChars[i] : i \in 1..10}
\* \s
SpaceChars == {" ", "\t", "\n", "\f", "\r"}

CpdlcMessageType == <<"c", "p", "d", "l", "c">>
TelexMessageType == <<"t", "e", "l", "e", "x">>
InfoRequestMessageType == <<"i", "n", "f", "o", "r", "e", "q">>
DataRequestMessageType == <<"d", "a", "t", "a", "r", "e", "q">>
AdsCMessageType == <<"a", "d", "s", "-", "c">>
ProgressMessageType == <<"p", "r", "o", "g", "r", "e", "s", "s">>
PeekMessageType == <<"p", "e", "e", "k">>
PollMessageType == <<"p", "o", "l", "l">>
PingMessageType == <<"p", "i", "n", "g">>

\* the wire codes of MessageType
MessageTypes ==
    { InfoRequestMessageType, DataRequestMessageType, AdsCMessageType,
      TelexMessageType, CpdlcMessageType, ProgressMessageType, PeekMessageType,
      PollMessageType, PingMessageType }

\* the end of the longest run of characters of cs in s from i on (i - 1 if
\* s[i] is not in cs)
RunOf(s, i, cs) ==
    LET stops == {k \in i..Len(s) : s[k] \notin cs} IN
    IF stops = {} THEN Len(s)
    ELSE (CHOOSE k \in stops : \A j \in stops : k <= j) - 1

\* the end of the longest run of characters other than c in s from i on
RunUntil(s, i, c) ==
    LET stops == {k \in i..Len(s) : s[k] = c} IN
    IF stops = {} THEN Len(s)
    ELSE (CHOOSE k \in stops : \A j \in stops : k <= j) - 1

\* the match of \{([A-Za-z0-9]+)\s+([a-z]+)\s+(\{[^}]+\})\} that starts at
\* s[i]: where it ends and its three groups, or end = 0. Each repetition is
\* followed by a character outside its class, so the longest run is the only
\* way to match it.
MatchAt(s, i) ==
    LET NoMatch == [end |-> 0, m1 |-> <<>>, m2 |-> <<>>, m3 |-> <<>>] IN
    IF s[i] # "{" THEN NoMatch
    ELSE LET a == RunOf(s, i + 1, SenderChars)
             b == RunOf(s, a + 1, SpaceChars)
             c == RunOf(s, b + 1, LowerChars)
             d == RunOf(s, c + 1, SpaceChars)
             e == RunUntil(s, d + 2, "}")
         IN  IF /\ a >= i + 1
                /\ b >= a + 1
                /\ c >= b + 1
                /\ d >= c + 1
                /\ d + 1 <= Len(s)
                /\ s[d + 1] = "{"
                /\ e >= d + 2
                /\ e + 2 <= Len(s)
                /\ s[e + 1] = "}"
                /\ s[e + 2] = "}"
             THEN [end |-> e + 2,
                   m1 |-> SubSeq(s, i + 1, a),
                   m2 |-> SubSeq(s, b + 1, c),
                   m3 |-> SubSeq(s, d + 1, e + 1)]
             ELSE NoMatch

RECURSIVE FindAllFrom(_, _)
\* expr.FindAllStringSubmatch(data, -1): the leftmost matches from i on, each
\* search going on after the end of the match before it
FindAllFrom(s, i) ==
    IF i > Len(s) THEN <<>>
    ELSE LET m == MatchAt(s, i) IN
         IF m.end = 0 THEN FindAllFrom(s, i + 1)
         ELSE <<m>> \o FindAllFrom(s, m.end + 1)

\* a payload that keeps its braces
KeepBraces(m3) == m3

\* m[3][1 : len(m[3])-1]
StripBraces(m3) == SubSeq(m3, 2, Len(m3) - 1)

(***************************************************************************)
(* The session engine: ACARSManager and ACARSConnection.                   *)
(***************************************************************************)
Connected == "Connected"
Waiting == "Waiting"
Disconnected == "Disconnected"


\* capacity of the messages channel and of the rx channel
MessagesCap == 1
RxCap == 1

\* the goroutines that call the manager's methods
Callers == {"c1", "c2"}
\* the goroutine that made the manager
Owner == {"c1"}
\* the Listen goroutines, in the order ErrGroup.Go starts them
Tasks == 1..MaxTasks
\* the mutex is unlocked, or locked by the goroutine that is inside PushState
Free == "free"
Locked == "locked"

StationA == <<"A">>
\* the station arguments given to Connect
Stations == {<<>>, StationA}
\* the callsigns given to NewACARSManager
Callsigns == {<<>>, <<"C">>}

PayloadTelex == <<"H", "E", "L", "L", "O">>

ACARSMessage(sender, type, data) == [Sender |-> sender, Type |-> type, Data |-> data]

\* ParseACARSMessage: one envelope for each match, in the order of the matches
ParseACARSMessage(data) ==
    LET matches == FindAllFrom(data, 1) IN
    [k \in 1..Len(matches) |->
        ACARSMessage(matches[k].m1, matches[k].m2, StripBraces(matches[k].m3))]

EnvAccept1 ==
    ACARSMessage(StationA, CpdlcMessageType,
        <<"/", "d", "a", "t", "a", "2", "/", "7", "/", "1", "/", "N", "E", "/",
        "L", "O", "G", "O", "N", " ", "A", "C", "C", "E", "P", "T", "E", "D">>)
EnvAccept2 ==
    ACARSMessage(StationA, CpdlcMessageType,
        <<"/", "d", "a", "t", "a", "2", "/", "7", "/", "2", "/", "N", "E", "/",
        "L", "O", "G", "O", "N", " ", "A", "C", "C", "E", "P", "T", "E", "D">>)
EnvAcceptNoMrn ==
    ACARSMessage(StationA, CpdlcMessageType,
        <<"/", "d", "a", "t", "a", "2", "/", "7", "/", "/", "N", "E", "/",
        "L", "O", "G", "O", "N", " ", "A", "C", "C", "E", "P", "T", "E", "D">>)
EnvUnable ==
    ACARSMessage(StationA, CpdlcMessageType,
        <<"/", "d", "a", "t", "a", "2", "/", "7", "/", "1", "/", "N", "E", "/",
        "U", "N", "A", "B", "L", "E">>)
EnvBad ==
    ACARSMessage(StationA, CpdlcMessageType,
        <<"/", "d", "a", "t", "a", "2", "/", "x">>)
EnvTelex == ACARSMessage(StationA, TelexMessageType, PayloadTelex)
EnvMetar ==
    ACARSMessage(<<"S">>, InfoRequestMessageType,
        <<"M", "E", "T", "A", "R">>)

\* the envelope sequences ParseACARSMessage decodes from the poll responses
\* the network delivers
PollResponses ==
    { <<>>, <<EnvAccept1>>, <<EnvAcceptNoMrn, EnvAccept2>>, <<EnvTelex, EnvBad>>,
      <<EnvUnable>> }

\* the envelope sequences decoded from the responses to a weather request
WeatherResponses == { <<>>, <<EnvMetar>>, <<EnvMetar, EnvMetar>> }

VARIABLES
    callsign,      \* ACARSManager.callsign
    logonTimeout,  \* whether opts.cpdlcLogonTimeout is set
    state,         \* ACARSConnection.state
    station,       \* ACARSConnection.station (Nil or Some(string))
    lastMin,       \* ACARSConnection.lastMin
    mutex,         \* ACARSConnection.mutex: Free or Locked
    rx,            \* ACARSConnection.rx, the buffered state notifications
    rxClosed,      \* close(m.Connection.rx) was called
    messages,      \* ACARSManager.messages, the buffered envelopes
    messagesClosed,\* close(m.messages) was called
    cancelled,     \* m.Ctx is done
    panicked,      \* a goroutine panicked: the program is gone
    nTasks,        \* the number of Listen goroutines started so far
    task,          \* each Listen goroutine: where it is and its locals
    call,          \* each caller: the method it runs and where it is
    ev,            \* what the latest step handed to MakeRawRequest or
                   \* returned to its caller
    logonReq,      \* history: the latest logon request sent by Connect
    reqMins,       \* history: the MINs of the packets sent by CPDLCRequest
    pollSeq,       \* history: the number of poll requests issued
    nCalls,        \* history: the number of calls made on the manager
    codec          \* the codec workbench: a function of the codec, its
                   \* input and, once it was applied, what it returned

connVars == <<state, station, lastMin, mutex, rx, rxClosed>>
chanVars == <<messages, messagesClosed>>
histVars == <<logonReq, reqMins, pollSeq>>
vars == <<callsign, logonTimeout, state, station, lastMin, mutex, rx, rxClosed,
          messages, messagesClosed, cancelled, panicked, nTasks, task, call,
          ev, logonReq, reqMins, pollSeq, nCalls, codec>>

NoTask == [pc |-> "unborn", q |-> <<>>, timer |-> FALSE, ret |-> "none", resp |-> 0]
IdleCall == [pc |-> "idle", op |-> "none", arg |-> <<>>]
Request(to, type, packet) == [to |-> to, type |-> type, packet |-> packet]
NoRequest == Request(<<>>, <<>>, <<>>)
\* arg: the arguments of the call and what the transport answered, where
\* the outcome of the call depends on them
Event(op, ret, out) == [op |-> op, ret |-> ret, out |-> out, arg |-> <<>>]
CallEvent(op, arg, ret, out) == [op |-> op, ret |-> ret, out |-> out, arg |-> arg]
NoEvent == Event("none", "none", <<>>)
\* an application of the function fn to in; from is what in was made of
Application(fn, from, in) ==
    [fn |-> fn, from |-> from, in |-> in, done |-> FALSE, out |-> <<>>]
\* the workbench is not in use
NoCodec == Application("none", <<>>, <<>>)

\* NewACARSManager
InitManager ==
    /\ callsign \in Callsigns
    /\ logonTimeout \in BOOLEAN
    /\ state = Disconnected
    /\ station = Nil
    /\ lastMin = 1
    /\ mutex = Free
    /\ rx = <<>>
    /\ rxClosed = FALSE
    /\ messages = <<>>
    /\ messagesClosed = FALSE
    /\ cancelled = FALSE
    /\ panicked = FALSE
    /\ nTasks = 0
    /\ task = [t \in Tasks |-> NoTask]
    /\ call = [c \in Callers |-> IdleCall]
    /\ ev = NoEvent
    /\ logonReq = NoRequest
    /\ reqMins = {}
    /\ pollSeq = 0
    /\ nCalls = 0

Init == InitManager /\ codec = NoCodec

\* the caller c makes a call
Idle(c) ==
    /\ ~panicked
    /\ call[c].pc = "idle"
    /\ nCalls < MaxCalls
    /\ nCalls' = nCalls + 1
    /\ UNCHANGED codec
\* the call of c goes on from pc
At(c, op, pc) ==
    /\ ~panicked
    /\ call[c].op = op
    /\ call[c].pc = pc
    /\ UNCHANGED <<nCalls, codec>>
\* the step hands nothing to the transport and returns nothing
Quiet == ev' = NoEvent
Begin(c, op, pc, arg) ==
    call' = [call EXCEPT ![c] = [pc |-> pc, op |-> op, arg |-> arg]]
Goto(c, pc) == call' = [call EXCEPT ![c].pc = pc]
\* the method returns ret to its caller, having handed the requests out to
\* MakeRawRequest in this step
Return(c, op, ret, out) ==
    /\ call' = [call EXCEPT ![c] = IdleCall]
    /\ ev' = Event(op, ret, out)

\* the same for a method whose outcome depends on its arguments arg
ReturnWith(c, op, arg, ret, out) ==
    /\ call' = [call EXCEPT ![c] = IdleCall]
    /\ ev' = CallEvent(op, arg, ret, out)

\* a PushState that stores the state without waiting for the mutex
PushStateNoLock(s) ==
    /\ mutex' = Locked
    /\ state' = s

\* PushState up to c.state = state: the mutex is taken and the state stored
PushStateLock(s) ==
    /\ mutex = Free
    /\ mutex' = Locked
    /\ state' = s

\* PushState from c.rx <- state: the notification is buffered (the send
\* blocks while rx is full) and the deferred Unlock runs
PushStateSend(s) ==
    /\ mutex = Locked
    /\ ~rxClosed
    /\ Len(rx) < RxCap
    /\ rx' = Append(rx, s)
    /\ mutex' = Free

\* PushState at c.rx <- state on a closed channel
PushStatePanics == mutex = Locked /\ rxClosed

(***************************************************************************)
(* Connect.                                                                *)
(***************************************************************************)
\* the guard of Connect that rejects the call (m.callsign is never nil)
ConnectInvalid(st) == callsign = <<>> /\ st = <<>>

\* the number of started and about to be started Listen goroutines
TasksClaimed == nTasks + Cardinality({c \in Callers : call[c].pc = "c_send"})

\* Connect, rejected: m.cancel() and the error
ConnectReject(c) ==
    /\ Idle(c)
    /\ \E st \in Stations :
          /\ ConnectInvalid(st)
          /\ cancelled' = TRUE
          /\ Return(c, "Connect", "invalid fields", <<>>)
    /\ UNCHANGED <<callsign, logonTimeout, connVars, chanVars, panicked,
                   nTasks, task, histVars>>

\* ACARSConnection.SetStation
SetStation(st) == mutex = Free /\ station' = Some(st)

\* Connect up to m.Connection.SetStation(station)
ConnectSetStation(c) ==
    /\ Idle(c)
    /\ TasksClaimed < MaxTasks
    /\ \E st \in Stations :
          /\ ~ConnectInvalid(st)
          /\ SetStation(st)
          /\ Begin(c, "Connect", "c_send", st)
    /\ Quiet
    /\ UNCHANGED <<callsign, logonTimeout, state, lastMin, mutex, rx, rxClosed,
                   chanVars, cancelled, panicked, nTasks, task, histVars>>

\* a logon request that takes the next MIN
LogonPacketNextMin ==
    MakeCPDLCPacket(lastMin + 1, Nil, RespondRequired, REQUEST_LOGON)

\* the logon request Connect encodes from the current lastMin
LogonPacket == MakeCPDLCPacket(lastMin, Nil, RespondRequired, REQUEST_LOGON)

\* the Listen goroutine as ErrGroup.Go starts it: its first check, the
\* ticker and the logon timeout
NewTask ==
    IF station = Nil
    THEN [NoTask EXCEPT !.pc = "done", !.ret = "invalid value"]
    ELSE [NoTask EXCEPT !.pc = "select", !.timer = logonTimeout]

\* Connect: the logon request is sent and m.ErrGroup.Go(m.Listen)
ConnectSendOk(c) ==
    /\ At(c, "Connect", "c_send")
    /\ logonReq' = Request(call[c].arg, CpdlcMessageType, LogonPacket)
    /\ ev' = Event("Connect", "none", <<logonReq'>>)
    /\ nTasks' = nTasks + 1
    /\ task' = [task EXCEPT ![nTasks + 1] = NewTask]
    /\ call' = [call EXCEPT ![c] = [pc |-> "c_lock", op |-> "Connect", arg |-> <<>>]]
    /\ UNCHANGED <<callsign, logonTimeout, connVars, chanVars, cancelled,
                   panicked, reqMins, pollSeq>>

\* a failed logon request that leaves the context alone
ConnectSendFailsNoCancel(c) ==
    /\ At(c, "Connect", "c_send")
    /\ Return(c, "Connect", "transport", <<>>)
    /\ UNCHANGED <<callsign, logonTimeout, connVars, chanVars, cancelled,
                   panicked, nTasks, task, histVars>>

\* Connect: the logon request fails: m.cancel() and the error
ConnectSendFails(c) ==
    /\ At(c, "Connect", "c_send")
    /\ cancelled' = TRUE
    /\ Return(c, "Connect", "transport", <<>>)
    /\ UNCHANGED <<callsign, logonTimeout, connVars, chanVars, panicked,
                   nTasks, task, histVars>>

\* Connect: m.Connection.PushState(Waiting), the mutex and the state
ConnectPushLock(c) ==
    /\ At(c, "Connect", "c_lock")
    /\ PushStateLock(Waiting)
    /\ Goto(c, "c_push")
    /\ Quiet
    /\ UNCHANGED <<callsign, logonTimeout, station, lastMin, rx, rxClosed,
                   chanVars, cancelled, panicked, nTasks, task, histVars>>

\* Connect: m.Connection.PushState(Waiting), the notification; return nil
ConnectPushSend(c) ==
    /\ At(c, "Connect", "c_push")
    /\ PushStateSend(Waiting)
    /\ Return(c, "Connect", NoErr, <<>>)
    /\ UNCHANGED <<callsign, logonTimeout, state, station, lastMin, rxClosed,
                   chanVars, cancelled, panicked, nTasks, task, histVars>>

\* a send on the closed rx channel panics
PushPanic ==
    /\ ~panicked
    /\ UNCHANGED <<nCalls, codec>>
    /\ PushStatePanics
    /\ panicked' = TRUE
    /\ Quiet
    /\ UNCHANGED <<callsign, logonTimeout, connVars, chanVars, cancelled,
                   nTasks, task, call, histVars>>

(***************************************************************************)
(* Listen, the poll goroutine.                                             *)
(***************************************************************************)
InSelect(t) == ~panicked /\ task[t].pc = "select" /\ UNCHANGED <<nCalls, codec>>
TaskAt(t, pc) == ~panicked /\ task[t].pc = pc /\ UNCHANGED <<nCalls, codec>>
TaskGoto(t, pc) == task' = [task EXCEPT ![t].pc = pc]
TaskReturn(t, ret) ==
    task' = [task EXCEPT ![t] = [NoTask EXCEPT !.pc = "done", !.ret = ret]]

\* case <-timeout: PushState(Disconnected), the mutex and the state
ListenTimeout(t) ==
    /\ InSelect(t)
    /\ task[t].timer
    /\ PushStateLock(Disconnected)
    /\ task' = [task EXCEPT ![t].pc = "t_push", ![t].timer = FALSE]
    /\ Quiet
    /\ UNCHANGED <<callsign, logonTimeout, station, lastMin, rx, rxClosed,
                   chanVars, cancelled, panicked, nTasks, call, histVars>>

\* a timeout branch that goes back to the select
ListenTimeoutSendGoesOn(t) ==
    /\ TaskAt(t, "t_push")
    /\ PushStateSend(Disconnected)
    /\ TaskGoto(t, "select")
    /\ Quiet
    /\ UNCHANGED <<callsign, logonTimeout, state, station, lastMin, rxClosed,
                   chanVars, cancelled, panicked, nTasks, call, histVars>>

\* case <-timeout: PushState(Disconnected), the notification; return the
\* timeout error
ListenTimeoutSend(t) ==
    /\ TaskAt(t, "t_push")
    /\ PushStateSend(Disconnected)
    /\ TaskReturn(t, "timeout")
    /\ Quiet
    /\ UNCHANGED <<callsign, logonTimeout, state, station, lastMin, rxClosed,
                   chanVars, cancelled, panicked, nTasks, call, histVars>>

\* a failed poll request after which Listen goes on with its loop
ListenPollFailsRetries(t) ==
    /\ InSelect(t)
    /\ pollSeq < MaxPolls
    /\ pollSeq' = pollSeq + 1
    /\ cancelled' = TRUE
    /\ ev' = Event("Listen", "transport", <<>>)
    /\ UNCHANGED <<callsign, logonTimeout, connVars, chanVars, panicked,
                   nTasks, task, call, logonReq, reqMins>>

\* case <-ticker.C: the poll request fails: m.cancel() and the error
ListenPollFails(t) ==
    /\ InSelect(t)
    /\ pollSeq < MaxPolls
    /\ pollSeq' = pollSeq + 1
    /\ cancelled' = TRUE
    /\ TaskReturn(t, "transport")
    /\ ev' = Event("Listen", "transport", <<>>)
    /\ UNCHANGED <<callsign, logonTimeout, connVars, chanVars, panicked,
                   nTasks, call, logonReq, reqMins>>

\* case <-ticker.C: the poll request returns and ParseACARSMessage decodes
\* the envelopes r from it
ListenPoll(t) ==
    /\ InSelect(t)
    /\ pollSeq < MaxPolls
    /\ pollSeq' = pollSeq + 1
    /\ \E r \in PollResponses :
          task' = [task EXCEPT ![t] =
                      IF r = <<>> THEN @
                      ELSE [@ EXCEPT !.pc = "route", !.q = r, !.resp = pollSeq + 1]]
    /\ Quiet
    /\ UNCHANGED <<callsign, logonTimeout, connVars, chanVars, cancelled,
                   panicked, nTasks, call, logonReq, reqMins>>

\* case <-m.Ctx.Done(): return m.Ctx.Err()
ListenCancelled(t) ==
    /\ InSelect(t)
    /\ cancelled
    /\ TaskReturn(t, "cancelled")
    /\ Quiet
    /\ UNCHANGED <<callsign, logonTimeout, connVars, chanVars, cancelled,
                   panicked, nTasks, call, histVars>>

\* a routing that takes every cpdlc envelope for a reply to a logon
RoutedAnyState(v) == v.Type = CpdlcMessageType

\* the envelope is routed as a reply to the pending logon
RoutedAsLogon(v) == state = Waiting /\ v.Type = CpdlcMessageType

\* the decoded packet completes the pending logon
LogonMatches(v, message) ==
    /\ message.Data = LOGON_ACCEPTED
    /\ message.Mrn # Nil
    /\ message.Mrn[1] = lastMin
    /\ v.Sender = station[1]

\* the loop body up to m.messages <- v: where the envelope v takes Listen
RouteTo(v) ==
    IF ~RoutedAsLogon(v) THEN "publish"
    ELSE LET message == ParseCPDLCMessage(v.Data) IN
         IF message.err # NoErr THEN "decode"
         ELSE IF LogonMatches(v, message) THEN "l_lock"
         ELSE "publish"

\* a routing that publishes an envelope it cannot decode
ListenRoutePublishesAll(t) ==
    /\ TaskAt(t, "route")
    /\ LET to == RouteTo(Head(task[t].q)) IN
         IF to = "decode" THEN TaskGoto(t, "publish") ELSE TaskGoto(t, to)
    /\ Quiet
    /\ UNCHANGED <<callsign, logonTimeout, connVars, chanVars, cancelled,
                   panicked, nTasks, call, histVars>>

\* for _, v := range ...: the checks on v before it is published
ListenRoute(t) ==
    /\ TaskAt(t, "route")
    /\ LET to == RouteTo(Head(task[t].q)) IN
         IF to = "decode" THEN TaskReturn(t, "decode") ELSE TaskGoto(t, to)
    /\ Quiet
    /\ UNCHANGED <<callsign, logonTimeout, connVars, chanVars, cancelled,
                   panicked, nTasks, call, histVars>>

\* m.Connection.PushState(Connected), the mutex and the state
ListenPushLock(t) ==
    /\ TaskAt(t, "l_lock")
    /\ PushStateLock(Connected)
    /\ TaskGoto(t, "l_push")
    /\ Quiet
    /\ UNCHANGED <<callsign, logonTimeout, station, lastMin, rx, rxClosed,
                   chanVars, cancelled, panicked, nTasks, call, histVars>>

\* m.Connection.PushState(Connected), the notification
ListenPushSend(t) ==
    /\ TaskAt(t, "l_push")
    /\ PushStateSend(Connected)
    /\ TaskGoto(t, "publish")
    /\ Quiet
    /\ UNCHANGED <<callsign, logonTimeout, state, station, lastMin, rxClosed,
                   chanVars, cancelled, panicked, nTasks, call, histVars>>

\* m.messages <- v (the send blocks while the channel is full), then the
\* next envelope or back to the select
ListenPublish(t) ==
    /\ TaskAt(t, "publish")
    /\ ~messagesClosed
    /\ Len(messages) < MessagesCap
    /\ messages' = Append(messages, Head(task[t].q))
    /\ task' = [task EXCEPT ![t] =
                   IF Tail(task[t].q) = <<>>
                   THEN [@ EXCEPT !.pc = "select", !.q = <<>>, !.resp = 0]
                   ELSE [@ EXCEPT !.pc = "route", !.q = Tail(@)]]
    /\ Quiet
    /\ UNCHANGED <<callsign, logonTimeout, connVars, messagesClosed, cancelled,
                   panicked, nTasks, call, histVars>>

\* a send on the closed messages channel panics
PublishPanic ==
    /\ ~panicked
    /\ UNCHANGED <<nCalls, codec>>
    /\ messagesClosed
    /\ \/ \E t \in Tasks : task[t].pc = "publish"
       \/ \E c \in Callers : call[c].pc = "w_pub"
    /\ panicked' = TRUE
    /\ Quiet
    /\ UNCHANGED <<callsign, logonTimeout, connVars, chanVars, cancelled,
                   nTasks, task, call, histVars>>

(***************************************************************************)
(* CPDLCRequest.                                                           *)
(***************************************************************************)
\* a guard that looks at the station only
RequestRejectedNoStation == station = Nil

\* the guard of CPDLCRequest that rejects the call
RequestRejected == state # Connected \/ station = Nil

\* the increments done and about to be done
MinClaimed == lastMin + Cardinality({c \in Callers : call[c].pc = "r_inc"})

\* the rrk and data arguments given to CPDLCRequest
RequestRrk == RespondWilcoUnable
RequestData == <<"C", "L", "I", "M", "B">>

\* CPDLCRequest, rejected: the state error
RequestReject(c) ==
    /\ Idle(c)
    /\ RequestRejected
    /\ Return(c, "CPDLCRequest", "state", <<>>)
    /\ UNCHANGED <<callsign, logonTimeout, connVars, chanVars, cancelled,
                   panicked, nTasks, task, histVars>>

\* CPDLCRequest, the check passes
RequestCheck(c) ==
    /\ Idle(c)
    /\ MinClaimed < MaxMin
    /\ ~RequestRejected
    /\ Begin(c, "CPDLCRequest", "r_inc", <<>>)
    /\ Quiet
    /\ UNCHANGED <<callsign, logonTimeout, connVars, chanVars, cancelled,
                   panicked, nTasks, task, histVars>>

\* an increment by two
IncrementMinTwice == mutex = Free /\ lastMin' = lastMin + 2

\* ACARSConnection.IncrementMin
IncrementMin == mutex = Free /\ lastMin' = lastMin + 1

\* CPDLCRequest: m.Connection.IncrementMin()
RequestIncrement(c) ==
    /\ At(c, "CPDLCRequest", "r_inc")
    /\ IncrementMin
    /\ Goto(c, "r_send")
    /\ Quiet
    /\ UNCHANGED <<callsign, logonTimeout, state, station, mutex, rx, rxClosed,
                   chanVars, cancelled, panicked, nTasks, task, histVars>>

\* the MIN CPDLCRequest encodes in its packet
RequestMin == lastMin

\* CPDLCRequest: the packet is encoded and sent; return nil
RequestSendOk(c) ==
    /\ At(c, "CPDLCRequest", "r_send")
    /\ Return(c, "CPDLCRequest", NoErr,
              <<Request(station[1], CpdlcMessageType,
                        MakeCPDLCPacket(RequestMin, Nil, RequestRrk, RequestData))>>)
    /\ reqMins' = reqMins \cup {RequestMin}
    /\ UNCHANGED <<callsign, logonTimeout, connVars, chanVars, cancelled,
                   panicked, nTasks, task, logonReq, pollSeq>>

\* CPDLCRequest: the send fails; return the error
RequestSendFails(c) ==
    /\ At(c, "CPDLCRequest", "r_send")
    /\ Return(c, "CPDLCRequest", "transport", <<>>)
    /\ UNCHANGED <<callsign, logonTimeout, connVars, chanVars, cancelled,
                   panicked, nTasks, task, histVars>>

(***************************************************************************)
(* Telex and WeatherRequest.                                               *)
(***************************************************************************)
TelexData == {<<>>, PayloadTelex}
TelexStations == {<<>>, <<"B">>}

\* a guard that looks at the data only
TelexInvalidData(data, st) == data = <<>>

\* the guard of Telex that rejects the call
TelexInvalid(data, st) == data = <<>> \/ st = <<>>

\* Telex with an empty argument: the error
TelexReject(c) ==
    /\ Idle(c)
    /\ \E data \in TelexData, st \in TelexStations :
          /\ TelexInvalid(data, st)
          /\ ReturnWith(c, "Telex", <<data, st>>, "invalid data", <<>>)
    /\ UNCHANGED <<callsign, logonTimeout, connVars, chanVars, cancelled,
                   panicked, nTasks, task, histVars>>

\* Telex: the request is sent; return nil
TelexSendOk(c) ==
    /\ Idle(c)
    /\ \E data \in TelexData, st \in TelexStations :
          /\ ~TelexInvalid(data, st)
          /\ ReturnWith(c, "Telex", <<data, st>>, NoErr,
                        <<Request(st, TelexMessageType, data)>>)
    /\ UNCHANGED <<callsign, logonTimeout, connVars, chanVars, cancelled,
                   panicked, nTasks, task, histVars>>

\* Telex: the send fails; return the error
TelexSendFails(c) ==
    /\ Idle(c)
    /\ \E data \in TelexData, st \in TelexStations :
          /\ ~TelexInvalid(data, st)
          /\ ReturnWith(c, "Telex", <<data, st>>, "transport", <<>>)
    /\ UNCHANGED <<callsign, logonTimeout, connVars, chanVars, cancelled,
                   panicked, nTasks, task, histVars>>

Icaos == {<<"E", "G", "L", "L">>, <<"E", "G", "L">>, <<"E", "G", "L", "L", "X">>}
IcaoInvalid(icao) == Len(icao) < 4 \/ Len(icao) > 4

\* a check that lets two and more envelopes through
MessagesLenInvalidEmpty(r) == Len(r) < 1

\* the check of WeatherRequest on the number of decoded envelopes
MessagesLenInvalid(r) == Len(r) < 1 \/ Len(r) > 1

\* the request WeatherRequest makes for icao, to "SERVER" and with the
\* weather request type Default
WeatherPacket(icao) ==
    Request(<<"S", "E", "R", "V", "E", "R">>, InfoRequestMessageType,
            <<"m", "e", "t", "a", "r">> \o <<" ">> \o icao)

\* WeatherRequest with an icao that is not 4 long: the error
WeatherReject(c) ==
    /\ Idle(c)
    /\ \E icao \in Icaos :
          /\ IcaoInvalid(icao)
          /\ ReturnWith(c, "WeatherRequest", <<icao>>, "invalid icao", <<>>)
    /\ UNCHANGED <<callsign, logonTimeout, connVars, chanVars, cancelled,
                   panicked, nTasks, task, histVars>>

\* WeatherRequest: the request fails; return the error
WeatherSendFails(c) ==
    /\ Idle(c)
    /\ \E icao \in Icaos :
          /\ ~IcaoInvalid(icao)
          /\ ReturnWith(c, "WeatherRequest", <<icao>>, "transport", <<>>)
    /\ UNCHANGED <<callsign, logonTimeout, connVars, chanVars, cancelled,
                   panicked, nTasks, task, histVars>>

\* WeatherRequest: the response does not decode to one envelope: the error
WeatherBadCount(c) ==
    /\ Idle(c)
    /\ \E icao \in Icaos, r \in WeatherResponses :
          /\ ~IcaoInvalid(icao)
          /\ MessagesLenInvalid(r)
          /\ ReturnWith(c, "WeatherRequest", <<icao, r>>, "invalid messages len",
                        <<WeatherPacket(icao)>>)
    /\ UNCHANGED <<callsign, logonTimeout, connVars, chanVars, cancelled,
                   panicked, nTasks, task, histVars>>

\* WeatherRequest: the response decodes to one envelope
WeatherSendOk(c) ==
    /\ Idle(c)
    /\ \E icao \in Icaos, r \in WeatherResponses :
          /\ ~IcaoInvalid(icao)
          /\ ~MessagesLenInvalid(r)
          /\ Begin(c, "WeatherRequest", "w_pub", r[1])
          /\ ev' = CallEvent("WeatherRequest", <<icao, r>>, "none",
                             <<WeatherPacket(icao)>>)
    /\ UNCHANGED <<callsign, logonTimeout, connVars, chanVars, cancelled,
                   panicked, nTasks, task, histVars>>

\* WeatherRequest: m.messages <- message; return nil
WeatherPublish(c) ==
    /\ At(c, "WeatherRequest", "w_pub")
    /\ ~messagesClosed
    /\ Len(messages) < MessagesCap
    /\ messages' = Append(messages, call[c].arg)
    /\ Return(c, "WeatherRequest", NoErr, <<>>)
    /\ UNCHANGED <<callsign, logonTimeout, connVars, messagesClosed, cancelled,
                   panicked, nTasks, task, histVars>>

(***************************************************************************)
(* Close.                                                                  *)
(***************************************************************************)
\* Close: m.cancel()
CloseCancel(c) ==
    /\ Idle(c)
    /\ cancelled' = TRUE
    /\ Begin(c, "Close", "x_wait", <<>>)
    /\ Quiet
    /\ UNCHANGED <<callsign, logonTimeout, connVars, chanVars, panicked,
                   nTasks, task, histVars>>

\* every started Listen goroutine has returned
AllTasksDone == \A t \in Tasks : task[t].pc \in {"unborn", "done"}

\* Close: m.ErrGroup.Wait() returns and close(m.messages)
CloseMessages(c) ==
    /\ At(c, "Close", "x_wait")
    /\ AllTasksDone
    /\ IF messagesClosed
       THEN panicked' = TRUE /\ UNCHANGED <<messagesClosed, call>>
       ELSE messagesClosed' = TRUE /\ Goto(c, "x_rx") /\ UNCHANGED panicked
    /\ Quiet
    /\ UNCHANGED <<callsign, logonTimeout, connVars, messages, cancelled,
                   nTasks, task, histVars>>

\* Close: close(m.Connection.rx) and return; rx is open here, since a Close
\* that finds messages closed panics before it gets to rx
CloseRx(c) ==
    /\ At(c, "Close", "x_rx")
    /\ ~rxClosed
    /\ rxClosed' = TRUE
    /\ Return(c, "Close", NoErr, <<>>)
    /\ UNCHANGED <<callsign, logonTimeout, state, station, lastMin, mutex, rx,
                   chanVars, cancelled, panicked, nTasks, task, histVars>>

(***************************************************************************)
(* The consumers of the two channels.                                      *)
(***************************************************************************)
\* <-m.Recv()
RecvMessage ==
    /\ ~panicked
    /\ UNCHANGED <<nCalls, codec>>
    /\ messages # <<>>
    /\ messages' = Tail(messages)
    /\ Quiet
    /\ UNCHANGED <<callsign, logonTimeout, connVars, messagesClosed, cancelled,
                   panicked, nTasks, task, call, histVars>>

\* <-m.RecvState()
RecvState ==
    /\ ~panicked
    /\ UNCHANGED <<nCalls, codec>>
    /\ rx # <<>>
    /\ rx' = Tail(rx)
    /\ Quiet
    /\ UNCHANGED <<callsign, logonTimeout, state, station, lastMin, mutex,
                   rxClosed, chanVars, cancelled, panicked, nTasks, task, call,
                   histVars>>

\* one goroutine uses the whole interface of the manager, next to the Listen
\* goroutines its Connect calls start and the consumers of the two channels
Next ==
    \/ \E c \in Owner :
          \/ ConnectReject(c)
          \/ ConnectSetStation(c)
          \/ ConnectSendOk(c)
          \/ ConnectSendFails(c)
          \/ ConnectPushLock(c)
          \/ ConnectPushSend(c)
          \/ RequestReject(c)
          \/ RequestCheck(c)
          \/ RequestIncrement(c)
          \/ RequestSendOk(c)
          \/ RequestSendFails(c)
          \/ TelexReject(c)
          \/ TelexSendOk(c)
          \/ TelexSendFails(c)
          \/ WeatherReject(c)
          \/ WeatherSendFails(c)
          \/ WeatherBadCount(c)
          \/ WeatherSendOk(c)
          \/ WeatherPublish(c)
          \/ CloseCancel(c)
          \/ CloseMessages(c)
          \/ CloseRx(c)
    \/ \E t \in Tasks :
          \/ ListenTimeout(t)
          \/ ListenTimeoutSend(t)
          \/ ListenPollFails(t)
          \/ ListenPoll(t)
          \/ ListenCancelled(t)
          \/ ListenRoute(t)
          \/ ListenPushLock(t)
          \/ ListenPushSend(t)
          \/ ListenPublish(t)
    \/ PushPanic
    \/ PublishPanic
    \/ RecvMessage
    \/ RecvState

Spec == Init /\ [][Next]_vars

\* two goroutines call Connect and CPDLCRequest on the same manager
NextCallers ==
    \/ \E c \in Callers :
          \/ ConnectReject(c)
          \/ ConnectSetStation(c)
          \/ ConnectSendOk(c)
          \/ ConnectSendFails(c)
          \/ ConnectPushLock(c)
          \/ ConnectPushSend(c)
          \/ RequestReject(c)
          \/ RequestCheck(c)
          \/ RequestIncrement(c)
          \/ RequestSendOk(c)
          \/ RequestSendFails(c)
    \/ \E t \in Tasks :
          \/ ListenTimeout(t)
          \/ ListenTimeoutSend(t)
          \/ ListenPollFails(t)
          \/ ListenPoll(t)
          \/ ListenCancelled(t)
          \/ ListenRoute(t)
          \/ ListenPushLock(t)
          \/ ListenPushSend(t)
          \/ ListenPublish(t)
    \/ RecvMessage
    \/ RecvState

SpecCallers == Init /\ [][NextCallers]_vars

\* the steps of the goroutines of the program in a session that connects
\* and shuts down
ShutdownSteps ==
    \/ \E c \in Owner :
          \/ ConnectReject(c)
          \/ ConnectSetStation(c)
          \/ ConnectSendOk(c)
          \/ ConnectSendFails(c)
          \/ ConnectPushLock(c)
          \/ ConnectPushSend(c)
          \/ CloseCancel(c)
          \/ CloseMessages(c)
          \/ CloseRx(c)
    \/ \E t \in Tasks :
          \/ ListenTimeout(t)
          \/ ListenTimeoutSend(t)
          \/ ListenPollFails(t)
          \/ ListenPoll(t)
          \/ ListenCancelled(t)
          \/ ListenRoute(t)
          \/ ListenPushLock(t)
          \/ ListenPushSend(t)
          \/ ListenPublish(t)
    \/ PushPanic
    \/ PublishPanic

\* the consumers receive when they like, or not at all
NextShutdown ==
    \/ ShutdownSteps
    \/ RecvMessage
    \/ RecvState

\* the scheduler lets a goroutine that can take a step take one in the end;
\* nothing makes the consumers receive
SpecShutdown == Init /\ [][NextShutdown]_vars /\ WF_vars(ShutdownSteps)

(***************************************************************************)
(* The codec workbench: each function of the codec applied to inputs drawn *)
(* in the initial state.                                                   *)
(***************************************************************************)
\* the arguments given to MakeCPDLCPacket
PacketArgs ==
    LET PacketMins == {0 - 1, 0, 7, 12}
        PacketMrns == {Nil, Some(0), Some(3), Some(0 - 2)}
        PacketData == {<<>>, <<"H", "I">>, <<"A", "/", "B">>}
    IN  { [min |-> min, mrn |-> mrn, rrk |-> rrk, data |-> data] :
            min \in PacketMins, mrn \in PacketMrns,
            rrk \in responseRequirementMap, data \in PacketData }

\* the texts given to ParseCPDLCMessage: a prefix and three, four or five
\* fields joined by "/"
CPDLCTexts ==
    LET TextPrefixes == {DATA2_PREFIX, <<"/", "d", "a", "t", "a", "/">>, <<>>}
        MinFields == {<<"1">>, <<"1", "2">>, <<>>, <<"x">>, <<"-", "1">>, <<"1", "x">>}
        MrnFields == {<<>>, <<"2">>, <<"x">>}
        RrkFields == responseRequirementMap \cup {<<>>, <<"X">>, <<"w", "u">>}
        DataFields == {<<>>, <<"H", "I">>}
        FieldLists ==
            { <<min, mrn, rrk>> : min \in MinFields, mrn \in MrnFields, rrk \in RrkFields }
            \cup { <<min, mrn, rrk, data>> :
                     min \in MinFields, mrn \in MrnFields, rrk \in RrkFields,
                     data \in DataFields }
            \cup { <<min, mrn, rrk, data, data>> :
                     min \in MinFields, mrn \in MrnFields, rrk \in RrkFields,
                     data \in DataFields }
    IN  { p \o Join(f, "/") : p \in TextPrefixes, f \in FieldLists }

\* the texts given to ParseAdsCMessage: a prefix and zero to seven fields
\* joined by " "
AdsCTexts ==
    LET AdsCPrefixes ==
            { REPORT \o <<" ">>, REPORT, <<"R", "E", "P", "O", "R", " ">>, <<>> }
        LatFields ==
            { <<"5">>, <<"-", "0", ".", "1">>, <<"5", "1", ".", "5", "0">>, <<".", "5">>,
              <<"x">>, <<>>, <<".">> }
        LongFields == { <<"-", "0", ".", "1">>, <<"x">> }
        AltFields == { <<"3", "5", "0">>, <<"-", "5">>, <<"x">>, <<>> }
        HeadingFields ==
            { <<"0">>, <<"3", "6", "0">>, <<"-", "1">>, <<"3", "6", "1">>, <<"x">>, <<>>,
              <<"9", "0">> }
        AdsCCallsign == <<"C">>
        AdsCTime == <<"1", "2">>
        AdsCFieldLists ==
            { <<>>, <<AdsCCallsign>>, <<AdsCCallsign, AdsCTime>> }
            \cup { <<AdsCCallsign, AdsCTime, lat>> : lat \in LatFields }
            \cup { <<AdsCCallsign, AdsCTime, lat, long>> :
                     lat \in LatFields, long \in LongFields }
            \cup { <<AdsCCallsign, AdsCTime, lat, long, alt>> :
                     lat \in LatFields, long \in LongFields, alt \in AltFields }
            \cup { <<AdsCCallsign, AdsCTime, lat, long, alt, heading>> :
                     lat \in LatFields, long \in LongFields, alt \in AltFields,
                     heading \in HeadingFields }
            \cup { <<AdsCCallsign, AdsCTime, lat, long, alt, heading, <<"Z">>>> :
                     lat \in LatFields, long \in LongFields, alt \in {<<"3", "5", "0">>},
                     heading \in HeadingFields }
    IN  { p \o Join(f, " ") : p \in AdsCPrefixes, f \in AdsCFieldLists }

\* ParseAdsCMessage is applied
ParseReport ==
    /\ codec.fn = "ParseAdsCMessage"
    /\ ~codec.done
    /\ codec' = [codec EXCEPT !.done = TRUE, !.out = ParseAdsCMessage(codec.in)]
    /\ UNCHANGED <<callsign, logonTimeout, connVars, chanVars, cancelled,
                   panicked, nTasks, task, call, ev, histVars, nCalls>>


\* the pieces of the texts given to ParseACARSMessage: a unit of each
\* MessageType, of a type that is none, in capitals, with a lower-case
\* sender and wider separators, and texts that are no units
Pieces ==
    LET UnitText(sender, ws1, type, ws2, payload) ==
            <<"{">> \o sender \o ws1 \o type \o ws2 \o <<"{">> \o payload \o <<"}", "}">>
        \* a piece that has the form of a unit, and the envelope written in it
        Unit(sender, ws1, type, ws2, payload) ==
            [text |-> UnitText(sender, ws1, type, ws2, payload),
             env |-> Some(ACARSMessage(sender, type, payload))]
        \* a piece that has not
        Junk(text) == [text |-> text, env |-> Nil]
    IN  { Unit(<<"A">>, <<" ">>, type, <<" ">>, <<"X">>) :
            type \in MessageTypes \cup {<<"f", "o", "o">>, <<"C", "P", "D", "L", "C">>} }
        \cup { Unit(<<"B">>, <<" ">>, TelexMessageType, <<" ">>, <<"Y">>),
               Unit(<<"a", "1">>, <<" ", " ">>, PingMessageType, <<"\t">>,
                    <<"X", " ", "Y">>),
               Junk(<<"o", "k", " ">>),
               Junk(<<"}">>),
               Junk(<<"{", "A", " ", "c", "p", "d", "l", "c", " ", "X", "}">>),
               Junk(<<"{", "A", " ", "c", "p", "d", "l", "c", " ", "{", "}", "}">>),
               Junk(<<"{", "-", " ", "c", "p", "d", "l", "c", " ", "{", "X", "}", "}">>) }

RECURSIVE Concat(_)
\* the texts of the pieces ps, one after the other
Concat(ps) == IF ps = <<>> THEN <<>> ELSE ps[1].text \o Concat(Tail(ps))

\* ParseACARSMessage is applied
ParseEnvelopes ==
    /\ codec.fn = "ParseACARSMessage"
    /\ ~codec.done
    /\ codec' = [codec EXCEPT !.done = TRUE, !.out = ParseACARSMessage(codec.in)]
    /\ UNCHANGED <<callsign, logonTimeout, connVars, chanVars, cancelled,
                   panicked, nTasks, task, call, ev, histVars, nCalls>>

\* MakeCPDLCPacket is applied; its packet goes to ParseCPDLCMessage
MakePacket ==
    /\ codec.fn = "MakeCPDLCPacket"
    /\ codec' = Application("ParseCPDLCMessage", Some(codec.in),
                            MakeCPDLCPacket(codec.in.min, codec.in.mrn,
                                            codec.in.rrk, codec.in.data))
    /\ UNCHANGED <<callsign, logonTimeout, connVars, chanVars, cancelled,
                   panicked, nTasks, task, call, ev, histVars, nCalls>>

\* ParseCPDLCMessage is applied
ParsePacket ==
    /\ codec.fn = "ParseCPDLCMessage"
    /\ ~codec.done
    /\ codec' = [codec EXCEPT !.done = TRUE, !.out = ParseCPDLCMessage(codec.in)]
    /\ UNCHANGED <<callsign, logonTimeout, connVars, chanVars, cancelled,
                   panicked, nTasks, task, call, ev, histVars, nCalls>>

CodecInputs ==
    { Application("MakeCPDLCPacket", Nil, a) : a \in PacketArgs }
    \cup { Application("ParseCPDLCMessage", Nil, s) : s \in CPDLCTexts }
    \cup { Application("ParseAdsCMessage", Nil, s) : s \in AdsCTexts }
    \cup { Application("ParseACARSMessage", ps, Concat(ps)) :
             ps \in UNION { [1..k -> Pieces] : k \in 0..MaxUnits } }

InitCodec == InitManager /\ codec \in CodecInputs

NextCodec ==
    \/ MakePacket
    \/ ParsePacket
    \/ ParseReport
    \/ ParseEnvelopes

SpecCodec == InitCodec /\ [][NextCodec]_vars

(***************************************************************************)
(* The properties.                                                         *)
(***************************************************************************)
\* this step is the start of a call of the method op
Called(op) ==
    /\ nCalls' = nCalls + 1
    /\ \/ ev'.op = op
       \/ \E c \in Callers : call[c].pc = "idle" /\ call'[c].op = op

\* this step takes the call of c from pc to next
Steps(c, pc, next) == call[c].pc = pc /\ call'[c].pc = next

\* the MIN encoded in the latest logon request
LogonMin == ParseCPDLCMessage(logonReq.packet).Min

\* C1: while the state is Waiting and the recorded station is the one the
\* logon request went to, Listen decides to move to Connected on a decoded
\* cpdlc envelope if and only if its data is "LOGON ACCEPTED", its mrn is
\* present and equals the MIN encoded in the logon request, and its sender
\* is that station; this under every interleaving with Connect and
\* CPDLCRequest calls.
C1_LogonMatchesRequest ==
    [][\A t \in Tasks :
          (/\ task[t].pc = "route"
           /\ task'[t] # task[t]
           /\ state = Waiting
           /\ station = Some(logonReq.to)
           /\ Head(task[t].q).Type = <<"c", "p", "d", "l", "c">>
           /\ ParseCPDLCMessage(Head(task[t].q).Data).err = NoErr) =>
             LET v == Head(task[t].q)
                 message == ParseCPDLCMessage(v.Data)
             IN  task'[t].pc = "l_lock" <=>
                    /\ message.Data = <<"L", "O", "G", "O", "N", " ",
                                        "A", "C", "C", "E", "P", "T", "E", "D">>
                    /\ message.Mrn = Some(LogonMin)
                    /\ v.Sender = logonReq.to]_vars

\* C2: the connection state only ever changes from Disconnected to Waiting,
\* from Waiting to Connected and from Waiting to Disconnected.
C2_StateTransitions ==
    [][state' # state =>
          <<state, state'>> \in { <<Disconnected, Waiting>>,
                                  <<Waiting, Connected>>,
                                  <<Waiting, Disconnected>> }]_vars

\* C3: no CPDLCRequest sends a packet whose MIN an earlier CPDLCRequest
\* already sent.
C3_DistinctMins ==
    [][(ev'.op = "CPDLCRequest" /\ ev'.out # <<>>) =>
          ParseCPDLCMessage(ev'.out[1].packet).Min \notin reqMins]_vars

\* C6: no Connect with an empty station gets past the guard of Connect, so
\* none records the empty station or goes on to send a logon request.
C6_EmptyStationRejected ==
    /\ station # Some(<<>>)
    /\ \A c \in Callers :
          (call[c].op = "Connect" /\ call[c].pc = "c_send") => call[c].arg # <<>>

\* C10: every envelope of a poll response that Listen takes up goes on to be
\* sent on messages, and when a Listen sends an envelope no other Listen
\* still holds an unsent envelope of an earlier poll response.
C10_ResponsesInOrder ==
    [][\A t \in Tasks :
          /\ (task[t].pc = "route" /\ task'[t] # task[t]) =>
                task'[t].pc \in {"publish", "l_lock"}
          /\ (/\ task[t].pc = "publish"
              /\ task'[t] # task[t]
              /\ messages' = Append(messages, Head(task[t].q))) =>
                \A u \in Tasks \ {t} :
                   task[u].resp = 0 \/ task[u].resp > task[t].resp]_vars

\* C4: lastMin is at least 1 and never decreases; the only step that changes
\* it is the increment of a CPDLCRequest that passed its check, which adds
\* exactly one. Connect, Listen (poll, routing, timeout), Telex,
\* WeatherRequest, Close and the consumers leave it unchanged.
C4_LastMinOnlyIncrements ==
    [][/\ lastMin >= 1
       /\ lastMin' >= lastMin
       /\ \A c \in Callers :
             Steps(c, "r_inc", "r_send") => lastMin' = lastMin + 1
       /\ lastMin' # lastMin =>
             \E c \in Callers :
                /\ call[c].op = "CPDLCRequest"
                /\ Steps(c, "r_inc", "r_send")]_vars

\* two CPDLCRequest calls went through and lastMin is 3
C4_Witness ==
    /\ lastMin = 3
    /\ reqMins = {2, 3}
    /\ ev.op = "CPDLCRequest"
    /\ ev.ret = NoErr

\* C5: a CPDLCRequest called while the state is not Connected, or while no
\* station is set, returns the state error at once: it hands nothing to the
\* transport, leaves lastMin and goes no further.
C5_RequestRejected ==
    [][(Called("CPDLCRequest") /\ (state # Connected \/ station = Nil)) =>
          /\ ev' = Event("CPDLCRequest", "state", <<>>)
          /\ lastMin' = lastMin
          /\ call' = call
          /\ reqMins' = reqMins]_vars

\* a CPDLCRequest was rejected while the logon is pending
C5_Witness ==
    /\ state = Waiting
    /\ station # Nil
    /\ ev = Event("CPDLCRequest", "state", <<>>)

\* C7: a Connect that passes its guard records the station it was given;
\* when its logon send succeeds that step hands the transport exactly one
\* cpdlc request, to that station, whose packet decodes to min = the
\* current lastMin, no mrn, rrk Y and data "REQUEST LOGON"; the call then
\* sets the state to Waiting, appends one Waiting notification to the state
\* stream and returns nil with the state Waiting. No step of the call
\* changes lastMin or sends anything else.
C7_ConnectSucceeds ==
    [][\A c \in Callers :
          /\ (call[c].pc = "idle" /\ call'[c].op = "Connect") =>
                /\ station' = Some(call'[c].arg)
                /\ ev'.out = <<>>
                /\ lastMin' = lastMin
          /\ Steps(c, "c_send", "c_lock") =>
                /\ Len(ev'.out) = 1
                /\ ev'.out[1].to = call[c].arg
                /\ ev'.out[1].type = <<"c", "p", "d", "l", "c">>
                /\ ParseCPDLCMessage(ev'.out[1].packet) =
                      [err |-> NoErr, Min |-> lastMin, Mrn |-> Nil,
                       Rrk |-> <<"Y">>,
                       Data |-> <<"R", "E", "Q", "U", "E", "S", "T", " ",
                                  "L", "O", "G", "O", "N">>]
                /\ lastMin' = lastMin
                /\ state' = state
                /\ rx' = rx
          /\ Steps(c, "c_lock", "c_push") =>
                /\ state' = Waiting
                /\ ev'.out = <<>>
                /\ rx' = rx
                /\ lastMin' = lastMin
          /\ Steps(c, "c_push", "idle") =>
                /\ ev' = Event("Connect", NoErr, <<>>)
                /\ state = Waiting
                /\ state' = Waiting
                /\ rx' = Append(rx, Waiting)
                /\ lastMin' = lastMin]_vars

\* a Connect to a non-empty station has just returned nil
C7_Witness ==
    /\ ev = Event("Connect", NoErr, <<>>)
    /\ station = Some(StationA)
    /\ state = Waiting
    /\ rx = <<Waiting>>
    /\ logonReq.to = StationA
    /\ lastMin = 1

\* C8: when the logon send of Connect fails, that step returns the
\* transport error to the caller and cancels the context; it starts no
\* Listen goroutine, leaves the state and publishes no notification.
C8_ConnectSendFails ==
    [][\A c \in Callers :
          (call[c].op = "Connect" /\ Steps(c, "c_send", "idle")) =>
             /\ ev' = Event("Connect", "transport", <<>>)
             /\ cancelled'
             /\ nTasks' = nTasks
             /\ task' = task
             /\ state' = state
             /\ rx' = rx
             /\ logonReq' = logonReq]_vars

\* the first Connect failed at the transport: still Disconnected, no task
C8_Witness ==
    /\ ev = Event("Connect", "transport", <<>>)
    /\ cancelled
    /\ state = Disconnected
    /\ station = Some(StationA)
    /\ nTasks = 0
    /\ rx = <<>>

\* C9: with a logon timeout configured, the timeout branch of Listen sets
\* the state to Disconnected, appends a Disconnected notification as the
\* newest element of the state stream and returns the timeout error with the
\* state Disconnected; the returned goroutine takes no further step.
C9_LogonTimeout ==
    [][\A t \in Tasks :
          /\ (task[t].pc = "select" /\ task'[t].pc = "t_push") =>
                /\ logonTimeout
                /\ state' = Disconnected
                /\ rx' = rx
          /\ (task[t].pc = "t_push" /\ task'[t] # task[t]) =>
                /\ state = Disconnected
                /\ state' = Disconnected
                /\ rx' = Append(rx, Disconnected)
                /\ task'[t].pc = "done"
                /\ task'[t].ret = "timeout"
          /\ task[t].pc = "done" => task'[t] = task[t]]_vars

\* after one completed Connect and no poll, Listen timed out from Waiting
C9_Witness ==
    /\ \E t \in Tasks : task[t].pc = "done" /\ task[t].ret = "timeout"
    /\ nCalls = 1
    /\ \A c \in Callers : call[c].pc = "idle"
    /\ pollSeq = 0
    /\ state = Disconnected
    /\ rx = <<Disconnected>>

\* C11: Close closes messages and rx only once the context is cancelled and
\* every Listen has returned, so no Listen is ever at a send on messages or
\* on rx with that channel closed.
C11_NoSendAfterClose ==
    /\ (messagesClosed \/ rxClosed) => cancelled
    /\ \A c \in Callers :
          call[c].pc = "x_rx" => \A t \in Tasks : task[t].pc \in {"unborn", "done"}
    /\ \A t \in Tasks :
          /\ task[t].pc = "publish" => ~messagesClosed
          /\ task[t].pc \in {"l_push", "t_push"} => ~rxClosed

\* C12: once the context is cancelled, every Listen returns and a Close that
\* was called returns, whatever the consumers of messages and rx do.
C12_ShutdownCompletes ==
    (cancelled /\ ~panicked) ~>
       \/ panicked
       \/ /\ \A t \in Tasks : task[t].pc \in {"unborn", "done"}
          /\ \A c \in Callers : call[c].op # "Close"

\* C13: a Telex call returns the validation error, handing nothing to the
\* transport, if and only if its data or its station is empty; otherwise,
\* whatever the connection state, it makes one telex request to that station
\* with that data (and returns nil, or the error of the transport). In every
\* case state, station and lastMin stay as they are and nothing is sent on
\* messages or rx.
C13_Telex ==
    [][(nCalls' = nCalls + 1 /\ ev'.op = "Telex") =>
          LET data == ev'.arg[1]
              st == ev'.arg[2]
          IN  /\ (ev'.ret = "invalid data") <=> (data = <<>> \/ st = <<>>)
              /\ ev'.ret = "invalid data" => ev'.out = <<>>
              /\ ev'.ret # "invalid data" =>
                    \/ /\ ev'.ret = NoErr
                       /\ ev'.out = <<[to |-> st,
                                       type |-> <<"t", "e", "l", "e", "x">>,
                                       packet |-> data]>>
                    \/ ev'.ret = "transport" /\ ev'.out = <<>>
              /\ state' = state
              /\ station' = station
              /\ lastMin' = lastMin
              /\ messages' = messages
              /\ rx' = rx
              /\ call' = call]_vars

\* a telex was sent while Connected
C13_Witness ==
    /\ state = Connected
    /\ ev.op = "Telex"
    /\ ev.ret = NoErr
    /\ Len(ev.out) = 1

\* C14: a WeatherRequest whose icao is not 4 long returns the error without a
\* request; otherwise it makes one request and, unless the transport fails,
\* goes on to publish if and only if the response decodes to exactly one
\* envelope, returning the validation error and publishing nothing for zero
\* or for two and more; the publishing step appends exactly that envelope to
\* messages and returns nil. No step of it changes state, station or lastMin.
C14_WeatherRequest ==
    [][/\ (nCalls' = nCalls + 1 /\ ev'.op = "WeatherRequest") =>
             LET icao == ev'.arg[1] IN
             /\ (ev'.ret = "invalid icao") <=> Len(icao) # 4
             /\ ev'.ret \in {"invalid icao", "transport"} => ev'.out = <<>>
             /\ ev'.ret \notin {"invalid icao", "transport"} =>
                   LET r == ev'.arg[2] IN
                   /\ Len(ev'.out) = 1
                   /\ ev'.out[1].type = <<"i", "n", "f", "o", "r", "e", "q">>
                   /\ Len(r) # 1 => /\ ev'.ret = "invalid messages len"
                                    /\ call' = call
                   /\ Len(r) = 1 =>
                         /\ ev'.ret = "none"
                         /\ \E c \in Callers :
                               /\ call[c].pc = "idle"
                               /\ call'[c].pc = "w_pub"
                               /\ call'[c].arg = r[1]
             /\ messages' = messages
             /\ state' = state /\ station' = station /\ lastMin' = lastMin
       /\ \A c \in Callers :
             Steps(c, "w_pub", "idle") =>
                /\ messages' = Append(messages, call[c].arg)
                /\ ev' = Event("WeatherRequest", NoErr, <<>>)
                /\ state' = state /\ station' = station /\ lastMin' = lastMin]_vars

\* a WeatherRequest has published the one envelope of its response
C14_Witness ==
    /\ ev = Event("WeatherRequest", NoErr, <<>>)
    /\ messages = <<EnvMetar>>

\* the text s is an optional sign and then decimal digits, at least one
IsIntegerText(s) ==
    LET body == IF s # <<>> /\ s[1] \in {"+", "-"} THEN Tail(s) ELSE s
    IN  /\ body # <<>>
        /\ \A i \in 1..Len(body) :
              body[i] \in {"0", "1", "2", "3", "4", "5", "6", "7", "8", "9"}

\* C15: for every min, every mrn (absent or present), each of the six codes
\* and every data, ParseCPDLCMessage of the packet MakeCPDLCPacket makes
\* returns no error and the same min, mrn, rrk and data.
C15_RoundTrip ==
    (codec.fn = "ParseCPDLCMessage" /\ codec.from # Nil /\ codec.done) =>
       LET a == codec.from[1] IN
       /\ codec.out.err = NoErr
       /\ codec.out.Min = a.min
       /\ codec.out.Mrn = a.mrn
       /\ codec.out.Rrk = a.rrk
       /\ codec.out.Data = a.data

\* C16: ParseCPDLCMessage returns ErrInvalidCPDLCFormat exactly when the
\* text does not start with /data2/ or what follows is not 4 fields split
\* by "/"; otherwise one of the MIN, MRN and Key errors exactly when min is
\* not an integer, or mrn is non-empty and not an integer, or rrk is not one
\* of the six codes; otherwise the message, with Mrn nil for an empty mrn.
C16_Classification ==
    (codec.fn = "ParseCPDLCMessage" /\ codec.done) =>
       LET s == codec.in
           out == codec.out
           prefixed == /\ Len(s) >= 7
                       /\ SubSeq(s, 1, 7) = <<"/", "d", "a", "t", "a", "2", "/">>
           rest == SubSeq(s, 8, Len(s))
           nfields == Cardinality({i \in 1..Len(rest) : rest[i] = "/"}) + 1
           format == ~prefixed \/ nfields # 4
           f == Split(rest, "/")
       IN  /\ (out.err = ErrInvalidCPDLCFormat) <=> format
           /\ ~format =>
                 LET invalid ==
                        \/ ~IsIntegerText(f[1])
                        \/ f[2] # <<>> /\ ~IsIntegerText(f[2])
                        \/ f[3] \notin {<<"W", "U">>, <<"A", "N">>, <<"R">>,
                                        <<"N", "E">>, <<"Y">>, <<"N">>}
                 IN  /\ out.err \in {"MIN", "MRN", "Key"} <=> invalid
                     /\ ~invalid =>
                           /\ out.err = NoErr
                           /\ out.Min = AtoiVal(f[1])
                           /\ f[2] = <<>> => out.Mrn = Nil
                           /\ f[2] # <<>> => out.Mrn = Some(AtoiVal(f[2]))
                           /\ out.Rrk = f[3]
                           /\ out.Data = f[4]

\* a text with an empty mrn field was decoded, to a nil Mrn
C16_Witness ==
    /\ codec.fn = "ParseCPDLCMessage"
    /\ codec.from = Nil
    /\ codec.done
    /\ codec.out.err = NoErr
    /\ codec.out.Mrn = Nil

\* the text s is an optional sign and then digits with at most one point
\* among them, at least one digit
IsDecimalText(s) ==
    LET body == IF s # <<>> /\ s[1] \in {"+", "-"} THEN Tail(s) ELSE s
        digits == {i \in 1..Len(body) :
                     body[i] \in {"0", "1", "2", "3", "4", "5", "6", "7", "8", "9"}}
        points == {i \in 1..Len(body) : body[i] = "."}
    IN  /\ digits \cup points = 1..Len(body)
        /\ digits # {}
        /\ Cardinality(points) <= 1

\* C17: a report that ParseAdsCMessage accepts has no heading or one from 0
\* to 360; for a report with a 6th field, an integer from 0 to 360 (0 and 360
\* among them) is never the heading error and is the Heading of the accepted
\* report, as it was written, and anything else (-1, 361, a non-integer) is
\* the heading error.
C17_Heading ==
    (codec.fn = "ParseAdsCMessage" /\ codec.done) =>
       LET s == codec.in
           out == codec.out
           f == Split(SubSeq(s, 8, Len(s)), " ")
           inRange(h) == IsIntegerText(h) /\ AtoiVal(h) >= 0 /\ AtoiVal(h) <= 360
       IN  /\ out.err = NoErr =>
                 \/ out.Heading = Nil
                 \/ out.Heading[1] >= 0 /\ out.Heading[1] <= 360
           /\ (Len(s) >= 7 /\ SubSeq(s, 1, 7) = <<"R", "E", "P", "O", "R", "T", " ">>) =>
                 /\ (out.err = NoErr /\ Len(f) = 5) => out.Heading = Nil
                 /\ (Len(f) >= 6 /\ inRange(f[6])) =>
                       /\ out.err # "Invalid heading value"
                       /\ out.err = NoErr => out.Heading = Some(AtoiVal(f[6]))
                       /\ (IsDecimalText(f[3]) /\ IsDecimalText(f[4])
                             /\ IsIntegerText(f[5])) => out.err = NoErr
                 /\ (Len(f) >= 6 /\ ~inRange(f[6])) =>
                       out.err = "Invalid heading value"

\* a report with the heading 360 was accepted
C17_Witness ==
    /\ codec.fn = "ParseAdsCMessage"
    /\ codec.done
    /\ codec.out.err = NoErr
    /\ codec.out.Heading = Some(360)

\* C18: ParseAdsCMessage accepts only a text that starts with "REPORT "; for
\* such a text it returns the field-count error, with the count of the fields
\* and 5 in it, exactly when fewer than 5 fields split by " " follow; with 5
\* and more fields and no heading error, the position error exactly when the
\* latitude or the longitude is not a decimal number, and with both decimal,
\* the format error exactly when the altitude is not an integer.
C18_ReportFormat ==
    (codec.fn = "ParseAdsCMessage" /\ codec.done) =>
       LET s == codec.in
           out == codec.out
           prefixed == /\ Len(s) >= 7
                       /\ SubSeq(s, 1, 7) = <<"R", "E", "P", "O", "R", "T", " ">>
           rest == SubSeq(s, 8, Len(s))
           nfields == Cardinality({i \in 1..Len(rest) : rest[i] = " "}) + 1
           f == Split(rest, " ")
       IN  /\ out.err = NoErr => prefixed
           /\ prefixed =>
                 /\ (out.err = "Invalid ADS-C field count") <=> nfields < 5
                 /\ nfields < 5 => out.detail = <<nfields, 5>>
                 /\ (nfields >= 5 /\ out.err # "Invalid heading value") =>
                       LET position == ~IsDecimalText(f[3]) \/ ~IsDecimalText(f[4])
                       IN  /\ (out.err = "Invalid position data (latitude or longitude)")
                                 <=> position
                           /\ ~position =>
                                 ((out.err = "Invalid ADS-C format")
                                    <=> ~IsIntegerText(f[5]))

\* C19: ParseACARSMessage returns, in the order of the text, the envelope of
\* each piece that is a unit with a type of lower-case letters, its payload
\* without the braces, and nothing for the text around them; a text without
\* such a unit gives the empty sequence; "{A cpdlc {X}}{B telex {Y}}" gives
\* the envelopes (A, cpdlc, X) and (B, telex, Y).
C19_Scan ==
    (codec.fn = "ParseACARSMessage" /\ codec.done) =>
       LET matched(p) ==
              /\ p.env # Nil
              /\ \A i \in 1..Len(p.env[1].Type) : p.env[1].Type[i] \in LowerChars
           units == SelectSeq(codec.from, matched)
       IN  /\ codec.out = [k \in 1..Len(units) |-> units[k].env[1]]
           /\ codec.in = <<"{", "A", " ", "c", "p", "d", "l", "c", " ", "{", "X",
                           "}", "}", "{", "B", " ", "t", "e", "l", "e", "x", " ",
                           "{", "Y", "}", "}">> =>
                 codec.out =
                    << [Sender |-> <<"A">>, Type |-> <<"c", "p", "d", "l", "c">>,
                        Data |-> <<"X">>],
                       [Sender |-> <<"B">>, Type |-> <<"t", "e", "l", "e", "x">>,
                        Data |-> <<"Y">>] >>

\* two units with text that is no unit before them were decoded, in order
C19_Witness ==
    /\ codec.fn = "ParseACARSMessage"
    /\ codec.done
    /\ Len(codec.from) = 3
    /\ codec.from[1].env = Nil
    /\ Len(codec.out) = 2
    /\ codec.out[1].Sender = <<"A">>
    /\ codec.out[1].Type = <<"c", "p", "d", "l", "c">>
    /\ codec.out[2].Sender = <<"B">>

\* C20: every envelope ParseACARSMessage returns has one of the nine wire
\* codes of MessageType as its Type, and a unit with an alphanumeric sender
\* is decoded exactly when its type is one of the nine.
C20_ClosedTypes ==
    (codec.fn = "ParseACARSMessage" /\ codec.done) =>
       /\ \A k \in 1..Len(codec.out) : codec.out[k].Type \in MessageTypes
       /\ \A k \in 1..Len(codec.from) :
             codec.from[k].env # Nil =>
                ((\E j \in 1..Len(codec.out) : codec.out[j] = codec.from[k].env[1])
                   <=> codec.from[k].env[1].Type \in MessageTypes)

\* C21: at any moment at most one Listen goroutine is running and at most
\* one is working on a poll response, whatever Connect calls were made.
C21_OnePollTask ==
    /\ Cardinality({t \in Tasks : task[t].pc \notin {"unborn", "done"}}) <= 1
    /\ Cardinality({t \in Tasks : task[t].resp # 0}) <= 1

\* C22: a step that reads state, station or lastMin (the check and the
\* packet of CPDLCRequest, the logon packet of Connect, the routing of an
\* envelope by Listen) is taken by the holder of the mutex, so never while
\* another goroutine is inside PushState with the mutex locked.
C22_AccessUnderMutex ==
    [][/\ Called("CPDLCRequest") => mutex = Free
       /\ \A c \in Callers :
             /\ Steps(c, "c_send", "c_lock") => mutex = Free
             /\ Steps(c, "r_send", "idle") => mutex = Free
       /\ \A t \in Tasks :
             (task[t].pc = "route" /\ task'[t] # task[t]) => mutex = Free]_vars

\* C23: a Listen that has returned the transport error, the timeout error or
\* a decode error has left the context cancelled.
C23_FatalErrorCancels ==
    \A t \in Tasks :
       (task[t].pc = "done" /\ task[t].ret \in {"transport", "timeout", "decode"})
          => cancelled

\* C24: when Listen, with the state Waiting, comes to a cpdlc envelope that
\* ParseCPDLCMessage rejects, it returns the decode error in that step: the
\* state stays Waiting, nothing is sent on messages, and the envelope and
\* the ones after it in the response are dropped. A Listen that has returned
\* takes no further step, and an envelope leaves the response of a running
\* Listen only by being sent on messages, so the envelopes before the
\* rejected one were sent.
C24_DecodeErrorEndsListen ==
    [][\A t \in Tasks :
          /\ (/\ task[t].pc = "route"
              /\ task'[t] # task[t]
              /\ state = "Waiting"
              /\ Head(task[t].q).Type = <<"c", "p", "d", "l", "c">>
              /\ ParseCPDLCMessage(Head(task[t].q).Data).err # NoErr) =>
                /\ task'[t].pc = "done"
                /\ task'[t].ret = "decode"
                /\ task'[t].q = <<>>
                /\ state' = "Waiting"
                /\ messages' = messages
          /\ task[t].pc = "done" => task'[t] = task[t]
          /\ (task[t].q # <<>> /\ task'[t].q # task[t].q /\ task'[t].pc # "done") =>
                messages' = Append(messages, Head(task[t].q))]_vars

\* a Listen has returned the decode error with the state Waiting, after the
\* telex envelope that came before the rejected one was sent on messages
C24_Witness ==
    /\ state = Waiting
    /\ messages = <<EnvTelex>>
    /\ \E t \in Tasks : task[t].pc = "done" /\ task[t].ret = "decode"

\* C25: the step in which a poll request fails is the return of that Listen
\* with the transport error, with nothing sent on messages or rx; a Listen
\* that has returned stays as it is, and a poll request is only ever made by
\* a Listen that is in its select, so there is no second attempt.
C25_NoRetry ==
    [][/\ (ev'.op = "Listen" /\ ev'.ret = "transport") =>
             /\ pollSeq' = pollSeq + 1
             /\ messages' = messages
             /\ rx' = rx
             /\ \E t \in Tasks :
                   /\ task[t].pc = "select"
                   /\ task'[t].pc = "done"
                   /\ task'[t].ret = "transport"
                   /\ \A u \in Tasks \ {t} : task'[u] = task[u]
       /\ pollSeq' # pollSeq =>
             \E t \in Tasks : task[t].pc = "select" /\ task'[t].resp \in {0, pollSeq'}
       /\ \A t \in Tasks :
             (task[t].pc = "done" /\ task[t].ret = "transport") =>
                task'[t] = task[t]]_vars

\* the first poll request has failed and its Listen has returned
C25_Witness ==
    /\ ev = Event("Listen", "transport", <<>>)
    /\ pollSeq = 1
    /\ messages = <<>>
    /\ \E t \in Tasks : task[t].pc = "done" /\ task[t].ret = "transport"

\* C26: the state is assigned only in the step that takes the mutex, the
\* step that releases it sends exactly the state then current on rx and rx
\* grows in no other step, so that every assignment has one notification and
\* the notifications enter rx in the order of the assignments; rx is
\* received from its head; and when a receive empties rx while no PushState
\* is under way, the value received is the current state.
C26_NotificationsFollowState ==
    [][/\ state' # state => (mutex = Free /\ mutex' = Locked /\ rx' = rx)
       /\ (mutex = Free /\ mutex' = Locked) => rx' = rx
       /\ (mutex = Locked /\ mutex' = Free) =>
             (rx' = Append(rx, state) /\ state' = state)
       /\ Len(rx') > Len(rx) => (mutex = Locked /\ mutex' = Free)
       /\ Len(rx') < Len(rx) => (rx' = Tail(rx) /\ state' = state)
       /\ (rx # <<>> /\ rx' = <<>> /\ mutex' = Free) => Head(rx) = state']_vars

\* a Connect holds the mutex in its PushState(Waiting) while a Listen that
\* found the logon accepted waits for it in PushState(Connected), and the
\* notification of an earlier assignment is still in rx
C26_Witness ==
    /\ mutex = Locked
    /\ rx # <<>>
    /\ \E c \in Callers : call[c].pc = "c_push"
    /\ \E t \in Tasks : task[t].pc = "l_lock"

\* C27: a goroutine that holds the mutex of the connection releases it in
\* the end, whatever the consumer of rx does, so that SetStation,
\* IncrementMin and the next PushState get the mutex.
C27_MutexReleased ==
    (mutex = Locked /\ ~panicked) ~> (mutex = Free \/ panicked)

\* C28: while the state is Waiting or Connected some Listen is running;
\* when no Listen was started or every Listen has returned, the state is
\* Disconnected.
C28_StateImpliesListen ==
    state \in {Waiting, Connected} =>
       \E t \in Tasks : task[t].pc \notin {"unborn", "done"}

\* C29: as long as a Connect has started its Listen and has not yet assigned
\* Waiting in its PushState, that Listen has routed no envelope of a poll
\* response.
C29_RoutedAfterWaiting ==
    \A c \in Callers :
       (call[c].pc = "c_lock" /\ nTasks > 0) =>
          task[nTasks].pc \notin {"l_lock", "l_push", "publish"}

\* C30: no goroutine panics on a channel: no Connect is at its send on rx
\* with rx closed, no WeatherRequest or Listen is at its send on messages
\* with messages closed, and no Close closes a channel that is closed.
C30_NoPanicOnChannels ==
    /\ ~panicked
    /\ \A c \in Callers :
          /\ call[c].pc = "c_push" => ~rxClosed
          /\ call[c].pc = "w_pub" => ~messagesClosed
    /\ \A t \in Tasks : task[t].pc = "publish" => ~messagesClosed

\* C31: a CPDLCRequest that fails consumes no MIN: whenever no CPDLCRequest
\* is between its increment and its return, lastMin is the MIN the manager
\* started with plus one for each request that was sent, the latest of
\* them carrying lastMin.
C31_FailedRequestKeepsMin ==
    (\A c \in Callers : call[c].pc # "r_send") =>
       /\ lastMin = 1 + Cardinality(reqMins)
       /\ reqMins # {} => lastMin \in reqMins

\* C32: with the state Connected, the routing of an envelope by a Listen,
\* whatever its type and payload, sends that Listen to the publish step with
\* its response as it was and changes neither state, station nor lastMin;
\* the publish step sends just that envelope on messages, changes none of
\* the three either, and leaves the Listen in its loop.
C32_ConnectedJustPublishes ==
    [][\A t \in Tasks :
          /\ (task[t].pc = "route" /\ task'[t] # task[t] /\ state = Connected) =>
                /\ task'[t] = [task[t] EXCEPT !.pc = "publish"]
                /\ <<state', station', lastMin'>> = <<state, station, lastMin>>
                /\ messages' = messages
                /\ rx' = rx
          /\ (task[t].pc = "publish" /\ task'[t] # task[t]) =>
                /\ messages' = Append(messages, Head(task[t].q))
                /\ <<state', station', lastMin'>> = <<state, station, lastMin>>
                /\ rx' = rx
                /\ task'[t].pc \in {"route", "select"}]_vars

\* the only Listen, without a logon timeout, connected on its first poll;
\* its second poll brought a telex and a cpdlc envelope that cannot be
\* decoded, the latter is the last one published and Listen is back in its
\* select
C32_Witness ==
    /\ state = Connected
    /\ ~logonTimeout
    /\ nTasks = 1
    /\ pollSeq = 2
    /\ task[1].pc = "select"
    /\ messages = <<EnvBad>>

====
